---- MODULE Spec2Model ----
(***************************************************************************)
(* adhole (main.go): a DNS proxy that answers queries for blocked domains  *)
(* with a forged A record and relays every other query to an upstream      *)
(* resolver, correlating upstream answers to clients by transaction ID.    *)
(*                                                                         *)
(* Byte strings (datagrams, host names) are sequences of numbers 0..255.   *)
(* A Go index i of a slice is element i+1 of the sequence.                 *)
(*                                                                         *)
(* Goroutines: runServerLocalDNS (one), handleDNS (one per client          *)
(* datagram, followed by its timeout closure), runServerUpstreamDNS (one). *)
(* The map `queries` is shared by all of them without any lock.  Every map *)
(* access is modelled as two steps (the access begins, the access ends and *)
(* takes effect); when an access begins while another goroutine is inside  *)
(* an access and one of the two writes, the Go runtime either lets both    *)
(* proceed or aborts the process ("fatal error: concurrent map ...").      *)
(* An unrecovered panic in any goroutine ends the process as well.         *)
(*                                                                         *)
(* Not modelled: the HTTP server, the flags, socket read errors (they only *)
(* log, count and continue), datagrams longer than the 512-byte buffers.   *)
(***************************************************************************)
EXTENDS Integers, Sequences, FiniteSets, TLC

\* ------------------------------------------------------------------ bounds

\* Client datagrams the local server reads in one behaviour of Spec.
MaxQueries == 2
\* Upstream datagrams the upstream server reads in one behaviour.
MaxAnswers == 2

\* ------------------------------------------------------- program constants

Dot == 46
HeaderLen == 12

\* ------------------------------------------------------------ pure helpers

\* A transaction ID taken from the first byte alone.
TxIDHigh(b0, b1) == b0

\* uint16(b0)<<8 + uint16(b1), as an int.
TxID(b0, b1) == (b0 * 256 + b1) % 65536

\* int8(b) of a byte b.
int8(b) == IF b >= 128 THEN b - 256 ELSE b

\* strings.Split(s, "."): the substrings between the dots; never empty.
RECURSIVE SplitRec(_, _, _)
SplitRec(s, cur, acc) ==
    IF s = <<>> THEN Append(acc, cur)
    ELSE IF Head(s) = Dot THEN SplitRec(Tail(s), <<>>, Append(acc, cur))
    ELSE SplitRec(Tail(s), Append(cur, Head(s)), acc)

Split(s) == SplitRec(s, <<>>, <<>>)

\* strings.Join(parts, ".").
RECURSIVE Join(_)
Join(parts) ==
    IF parts = <<>> THEN <<>>
    ELSE IF Len(parts) = 1 THEN parts[1]
    ELSE parts[1] \o <<Dot>> \o Join(Tail(parts))

\* parseList: every line of the list file, with a dot appended.
parseList(lines) == {l \o <<Dot>> : l \in lines}

\* answer: the record template followed by the proxy's IPv4 address.
ProxyIP == <<10, 0, 0, 1>>
answer == <<0, 1, 0, 1, 255, 255, 255, 255, 0, 4>> \o ProxyIP

\* The question-name loop of handleDNS, from Go offset `offset` with the
\* bytes decoded so far in `domain`.  panic: an index or a slice bound is out
\* of range (the slice msg has len = cap = n).
RECURSIVE decodeName(_, _, _)
decodeName(msg, offset, domain) ==
    IF offset >= Len(msg)
    THEN [panic |-> TRUE, host |-> domain, offset |-> offset]
    ELSE LET length == int8(msg[offset + 1]) IN
         IF length = 0
         THEN [panic |-> FALSE, host |-> domain, offset |-> offset]
         ELSE IF length < 0 \/ offset + 1 + length > Len(msg)
         THEN [panic |-> TRUE, host |-> domain, offset |-> offset]
         ELSE decodeName(msg, offset + 1 + length,
                         domain \o SubSeq(msg, offset + 2, offset + 1 + length)
                                \o <<Dot>>)

\* A block-list loop that stops when fewer than 4 parts remain.
RECURSIVE matchLoopFloor4(_, _, _, _)
matchLoopFloor4(bl, testHost, parts, try) ==
    IF testHost \in bl THEN [block |-> TRUE, try |-> try]
    ELSE LET rest == Tail(parts) IN
         IF Len(rest) < 4 THEN [block |-> FALSE, try |-> try]
         ELSE matchLoopFloor4(bl, Join(rest), rest, try + 1)

\* The block-list loop of handleDNS: testHost is tested, then the leftmost
\* part is dropped while at least 3 parts (of strings.Split, which counts the
\* empty part after the trailing dot) remain.
RECURSIVE matchLoop(_, _, _, _)
matchLoop(bl, testHost, parts, try) ==
    IF testHost \in bl THEN [block |-> TRUE, try |-> try]
    ELSE LET rest == Tail(parts) IN
         IF Len(rest) < 3 THEN [block |-> FALSE, try |-> try]
         ELSE matchLoop(bl, Join(rest), rest, try + 1)

\* A block decision whose counter starts at 0.
isBlockedFromZero(bl, host) == matchLoop(bl, host, Split(host), 0)

\* The block decision of handleDNS: the loop starts with the whole host and
\* try = 1.
isBlocked(bl, host) == matchLoop(bl, host, Split(host), 1)

\* The question counter handleDNS reads: uint8(msg[5]).
questionCount(msg) == msg[6]

\* handleDNS with a block decision that never blocks.
handleCheckNeverBlock(msg, bl) ==
    IF Len(msg) < 6 THEN [out |-> "panic", id |-> 0, host |-> <<>>, try |-> 0]
    ELSE IF questionCount(msg) # 1
    THEN [out |-> "drop", id |-> TxID(msg[1], msg[2]), host |-> <<>>, try |-> 0]
    ELSE LET d == decodeName(msg, HeaderLen, <<>>) IN
         [out |-> IF d.panic THEN "panic" ELSE "relay",
          id |-> TxID(msg[1], msg[2]), host |-> d.host, try |-> 1]

\* handleDNS up to the block decision: "panic", "drop" (question counter
\* differs from 1), "block" or "relay".
handleCheck(msg, bl) ==
    IF Len(msg) < 2 THEN [out |-> "panic", id |-> 0, host |-> <<>>, try |-> 0]
    ELSE LET id == TxID(msg[1], msg[2]) IN
         IF Len(msg) < 6 THEN [out |-> "panic", id |-> id, host |-> <<>>, try |-> 0]
         ELSE IF questionCount(msg) # 1
         THEN [out |-> "drop", id |-> id, host |-> <<>>, try |-> 0]
         ELSE LET d == decodeName(msg, HeaderLen, <<>>) IN
              IF d.panic THEN [out |-> "panic", id |-> id, host |-> d.host, try |-> 0]
              ELSE LET b == isBlocked(bl, d.host) IN
                   [out |-> IF b.block THEN "block" ELSE "relay",
                    id |-> id, host |-> d.host, try |-> b.try]

\* A forged response built from the header alone, without the question.
forgedResponseHeaderOnly(msg, host) ==
    [SubSeq(msg, 1, HeaderLen) EXCEPT ![3] = 129, ![4] = 128, ![8] = 1]
        \o SubSeq(msg, HeaderLen + 1, HeaderLen + 1 + Len(host))
        \o answer

\* A forged response whose appended name lacks the final zero byte.
forgedResponseNoZero(msg, host) ==
    [msg EXCEPT ![3] = 129, ![4] = 128, ![8] = 1]
        \o SubSeq(msg, HeaderLen + 1, HeaderLen + Len(host))
        \o answer

\* The forged response: flags and answer counter set, the question name
\* msg[12 : 12+1+len(host)] and the answer appended.
forgedResponse(msg, host) ==
    [msg EXCEPT ![3] = 129, ![4] = 128, ![8] = 1]
        \o SubSeq(msg, HeaderLen + 1, HeaderLen + 1 + Len(host))
        \o answer

\* ------------------------------------------------------------------ inputs

\* Addresses of the clients that send datagrams to the proxy socket.
Clients == {"c1", "c2"}

\* The wire encoding of a name: each label after its length byte, then 0.
RECURSIVE EncodeName(_)
EncodeName(labels) ==
    IF labels = <<>> THEN <<0>>
    ELSE <<Len(Head(labels))>> \o Head(labels) \o EncodeName(Tail(labels))

\* A query datagram: ID, flags 0x0100, QDCOUNT, ANCOUNT (upper byte an0),
\* NSCOUNT and ARCOUNT 0, the question name, type A, class IN.
Query(id0, id1, qd0, qd1, an0, name) ==
    <<id0, id1, 1, 0, qd0, qd1, an0, 0, 0, 0, 0, 0>> \o name \o <<0, 1, 0, 1>>

\* Labels: "a" "b" "c" "e" "o" "x" "y".
Names ==
    { <<>>, << <<99>> >>, << <<101>>, <<99>> >>, << <<111>>, <<99>> >>,
      << <<120>>, <<101>>, <<99>> >>, << <<97>>, <<101>>, <<99>> >>,
      << <<121>>, <<120>>, <<101>>, <<99>> >>, << <<120>>, <<111>> >> }

\* The block-list files parseList may load (lines, without the final dot):
\* "e.c"; "a.e.c"; "c"; "x.e.c" and "o"; an empty file.
ListFiles ==
    { { <<101, 46, 99>> }, { <<97, 46, 101, 46, 99>> }, { <<99>> },
      { <<120, 46, 101, 46, 99>>, <<111>> }, {} }

\* Client datagrams of the single-datagram specification: well-formed
\* queries of every name, other question counts, truncated datagrams, names
\* that overrun the datagram, a compression pointer as first length byte.
WideMsgs ==
    { Query(0, 1, 0, 1, an0, EncodeName(n)) : an0 \in {0, 1}, n \in Names }
    \cup { Query(1, 0, qd[1], qd[2], 0, EncodeName(<< <<101>>, <<99>> >>)) :
             qd \in { <<1, 1>>, <<0, 0>>, <<0, 2>>, <<1, 0>>, <<0, 1>> } }
    \cup { <<>>, <<0>>, <<0, 1, 1>>, <<0, 1, 1, 0, 0>>,
           <<0, 1, 1, 0, 0, 1>>, <<0, 1, 1, 0, 0, 2>>,
           <<0, 1, 1, 0, 0, 1, 0, 0, 0, 0, 0, 0>>,
           <<0, 1, 1, 0, 0, 1, 0, 0, 0, 0, 0, 0, 5, 101>>,
           <<0, 1, 1, 0, 0, 1, 0, 0, 0, 0, 0, 0, 1, 101>>,
           <<0, 1, 1, 0, 0, 1, 0, 0, 0, 0, 0, 0, 192, 12, 0, 1, 0, 1>>,
           <<0, 1, 1, 0, 0, 1, 0, 0, 0, 0, 0, 0, 1, 101, 1, 99, 0>> }

\* Client datagrams of the single-datagram specification, with their senders.
WideDatagrams == [msg : WideMsgs, addr : Clients]

\* Client datagrams of the concurrent specification: queries for "a." with
\* ID 1 from c1, with ID 1 from c2 and with ID 0 from c2, and a query for
\* "b." with ID 1 from c1.
ConcDatagrams ==
    { [msg |-> Query(0, 1, 0, 1, 0, EncodeName(<< <<97>> >>)), addr |-> "c1"],
      [msg |-> Query(0, 1, 0, 1, 0, EncodeName(<< <<97>> >>)), addr |-> "c2"],
      [msg |-> Query(0, 0, 0, 1, 0, EncodeName(<< <<97>> >>)), addr |-> "c2"],
      [msg |-> Query(0, 1, 0, 1, 0, EncodeName(<< <<98>> >>)), addr |-> "c1"] }

\* The block list of the concurrent specification: the line "b".
ConcList == { <<98>> }

\* What the upstream resolver answers to a query it was sent: the query's
\* ID, response flags.
Reply(m) == <<m[1], m[2], 129, 128>>

\* Datagrams the upstream socket may deliver unasked: a one-byte datagram
\* and a five-byte answer with ID 257.
Junk == { <<0>>, <<1, 1, 129, 128, 7>> }

\* ------------------------------------------------------------------- state

VARIABLES
    blocked,     \* the set parseList built
    queries,     \* the map id -> *query: [From, Host, ptr]; ptr is the
                 \* index of the handleDNS goroutine that allocated the query
    task,        \* the handleDNS goroutines and their timeout closures
    nrecv,       \* datagrams runServerLocalDNS has read
    up,          \* runServerUpstreamDNS: pc, buf, n, id, query, and dgram,
                 \* the datagram ReadFromUDP delivered in this iteration
    nans,        \* datagrams runServerUpstreamDNS has read
    relays,      \* WriteTo calls of runServerUpstreamDNS on the proxy socket
    cnt,         \* the expvar counters
    crashed      \* the process ended by a panic or a fatal error

vars == <<blocked, queries, task, nrecv, up, nans, relays, cnt, crashed>>

Handlers == 1..MaxQueries

NoQuery == [From |-> "none", Host |-> <<>>, ptr |-> 0]

\* A handleDNS goroutine: its position, its arguments msg and from, its
\* locals id, host, try and the outcome of the block decision, the query
\* its timeout closure found, and what it wrote: sent (WriteTo calls on the
\* proxy socket) and fwd (datagrams written on the upstream socket).
IdleTask ==
    [pc |-> "idle", msg |-> <<>>, from |-> "none", id |-> 0, host |-> <<>>,
     out |-> "", try |-> 0, query |-> NoQuery, sent |-> <<>>, fwd |-> <<>>]

\* An insert that keeps the entry an ID already has.
mapInsertKeepFirst(m, id, q) ==
    [k \in DOMAIN m \cup {id} |-> IF k \in DOMAIN m THEN m[k] ELSE q]

\* queries[id] = q.
mapInsert(m, id, q) ==
    [k \in DOMAIN m \cup {id} |-> IF k = id THEN q ELSE m[k]]

\* A delete that removes nothing.
mapDeleteNothing(m, id) == m

\* delete(queries, id).
mapDelete(m, id) == [k \in DOMAIN m \ {id} |-> m[k]]

\* ReadFromUDP(buf): the datagram overwrites the start of the buffer, the
\* rest of the buffer keeps what it held.  buf holds the bytes written so
\* far; the bytes after them are still the zeros of make.
readInto(buf, d) == d \o SubSeq(buf, Len(d) + 1, Len(buf))

bufAt(buf, i) == IF i + 1 <= Len(buf) THEN buf[i + 1] ELSE 0

InitCommon ==
    /\ queries = [k \in {} |-> NoQuery]
    /\ task = [h \in Handlers |-> IdleTask]
    /\ nrecv = 0
    /\ up = [pc |-> "L199", buf |-> <<>>, n |-> 0, id |-> 0, query |-> NoQuery,
             dgram |-> <<>>]
    /\ nans = 0
    /\ relays = <<>>
    /\ cnt = [Msgs |-> 0, Relayed |-> 0, Blocked |-> 0, Timedout |-> 0, Errors |-> 0]
    /\ crashed = FALSE

Init == blocked = parseList(ConcList) /\ InitCommon

InitOne == blocked \in {parseList(f) : f \in ListFiles} /\ InitCommon

\* ------------------------------------------------------------ map accesses

\* A write of the map takes two steps: it begins, and it ends and takes
\* effect.  A goroutine between the two is inside the write.
taskWriting(h) == task[h].pc \in {"L294w", "L299w", "L307w"}

\* runServerUpstreamDNS is goroutine 0.
writing(g) == IF g = 0 THEN up.pc = "L208w" ELSE taskWriting(g)

Goroutines == {0} \cup Handlers

\* Goroutine self reads or begins to write the map while another goroutine
\* is inside a write: a data race.
Race(self) == \E g \in Goroutines \ {self} : writing(g)

\* ------------------------------------------------------- runServerLocalDNS

\* One iteration: a datagram d.msg from d.addr is read, copied and handed to
\* a new handleDNS goroutine.
runServerLocalDNS(datagrams, limit) ==
    /\ ~crashed
    /\ nrecv < limit
    /\ \E d \in datagrams :
          task' = [task EXCEPT ![nrecv + 1] =
                      [IdleTask EXCEPT !.pc = "L229", !.msg = d.msg, !.from = d.addr]]
    /\ nrecv' = nrecv + 1
    /\ cnt' = [cnt EXCEPT !.Msgs = @ + 1]
    /\ UNCHANGED <<blocked, queries, up, nans, relays, crashed>>

\* --------------------------------------------------------------- handleDNS

\* Lines 229-267: the ID, the question counter, the name, the block list.
handleDNSCheck(h) ==
    /\ ~crashed
    /\ task[h].pc = "L229"
    /\ LET r == handleCheck(task[h].msg, blocked) IN
          /\ task' = [task EXCEPT
                         ![h].id = r.id, ![h].host = r.host, ![h].out = r.out,
                         ![h].try = r.try,
                         ![h].pc = CASE r.out = "block" -> "L269"
                                     [] r.out = "relay" -> "L294"
                                     [] OTHER -> "done"]
          /\ crashed' = (r.out = "panic")
    /\ UNCHANGED <<blocked, queries, nrecv, up, nans, relays, cnt>>

\* Lines 269-289: the forged answer is written to the sender.
handleDNSBlock(h) ==
    /\ ~crashed
    /\ task[h].pc = "L269"
    /\ \E ok \in BOOLEAN :
          /\ task' = [task EXCEPT
                ![h].pc = "done",
                ![h].sent = Append(@,
                    [to |-> task[h].from,
                     bytes |-> forgedResponse(task[h].msg, task[h].host),
                     ok |-> ok])]
          /\ cnt' = [cnt EXCEPT !.Blocked = @ + 1,
                                !.Errors = IF ok THEN @ ELSE @ + 1]
    /\ UNCHANGED <<blocked, queries, nrecv, up, nans, relays, crashed>>

\* Line 294 begins: queries[id] = &query{...}.
handleDNSInsertBegin(h) ==
    /\ ~crashed
    /\ task[h].pc = "L294"
    /\ \/ task' = [task EXCEPT ![h].pc = "L294w"] /\ UNCHANGED crashed
       \/ Race(h) /\ crashed' = TRUE /\ UNCHANGED task
    /\ UNCHANGED <<blocked, queries, nrecv, up, nans, relays, cnt>>

\* Line 294 ends.
handleDNSInsertEnd(h) ==
    /\ ~crashed
    /\ task[h].pc = "L294w"
    /\ queries' = mapInsert(queries, task[h].id,
                     [From |-> task[h].from, Host |-> task[h].host, ptr |-> h])
    /\ task' = [task EXCEPT ![h].pc = "L295"]
    /\ UNCHANGED <<blocked, nrecv, up, nans, relays, cnt, crashed>>

\* Lines 295-302: upstream.Write(msg); on success the timeout closure
\* starts and sleeps, on failure the entry is to be deleted.
handleDNSForward(h) ==
    /\ ~crashed
    /\ task[h].pc = "L295"
    /\ \/ /\ task' = [task EXCEPT ![h].pc = "L303",
                                  ![h].fwd = Append(@, task[h].msg)]
          /\ UNCHANGED cnt
       \/ /\ cnt' = [cnt EXCEPT !.Errors = @ + 1]
          /\ task' = [task EXCEPT ![h].pc = "L299"]
    /\ UNCHANGED <<blocked, queries, nrecv, up, nans, relays, crashed>>

\* Line 299 begins: delete(queries, id) after a failed write.
handleDNSUndoBegin(h) ==
    /\ ~crashed
    /\ task[h].pc = "L299"
    /\ \/ task' = [task EXCEPT ![h].pc = "L299w"] /\ UNCHANGED crashed
       \/ Race(h) /\ crashed' = TRUE /\ UNCHANGED task
    /\ UNCHANGED <<blocked, queries, nrecv, up, nans, relays, cnt>>

\* Line 299 ends.
handleDNSUndoEnd(h) ==
    /\ ~crashed
    /\ task[h].pc = "L299w"
    /\ queries' = mapDelete(queries, task[h].id)
    /\ task' = [task EXCEPT ![h].pc = "done"]
    /\ UNCHANGED <<blocked, nrecv, up, nans, relays, cnt, crashed>>

\* ------------------------------------------------------ the timeout closure

\* Lines 303-306: the sleep ends and queries[queryID] is looked up; an entry
\* found is reported as timed out.  The read races with a write in progress.
timeoutLookup(h) ==
    /\ ~crashed
    /\ task[h].pc = "L303"
    /\ \/ /\ IF task[h].id \in DOMAIN queries
             THEN /\ task' = [task EXCEPT ![h].pc = "L307",
                                          ![h].query = queries[task[h].id]]
                  /\ cnt' = [cnt EXCEPT !.Timedout = @ + 1]
             ELSE /\ task' = [task EXCEPT ![h].pc = "done"]
                  /\ UNCHANGED cnt
          /\ UNCHANGED crashed
       \/ Race(h) /\ crashed' = TRUE /\ UNCHANGED <<task, cnt>>
    /\ UNCHANGED <<blocked, queries, nrecv, up, nans, relays>>

\* Line 307 begins: delete(queries, queryID).
timeoutDeleteBegin(h) ==
    /\ ~crashed
    /\ task[h].pc = "L307"
    /\ \/ task' = [task EXCEPT ![h].pc = "L307w"] /\ UNCHANGED crashed
       \/ Race(h) /\ crashed' = TRUE /\ UNCHANGED task
    /\ UNCHANGED <<blocked, queries, nrecv, up, nans, relays, cnt>>

\* Line 307 ends.
timeoutDeleteEnd(h) ==
    /\ ~crashed
    /\ task[h].pc = "L307w"
    /\ queries' = mapDelete(queries, task[h].id)
    /\ task' = [task EXCEPT ![h].pc = "done"]
    /\ UNCHANGED <<blocked, nrecv, up, nans, relays, cnt, crashed>>

\* ---------------------------------------------------- runServerUpstreamDNS

\* The datagrams the upstream socket may deliver: an answer to a query that
\* was written to it, or one nobody asked for.
upstreamDatagrams ==
    UNION {{Reply(task[h].fwd[i]) : i \in 1..Len(task[h].fwd)} : h \in Handlers}
    \cup Junk

\* An ID taken from the second byte of the buffer alone.
upstreamIDLow(buf) == bufAt(buf, 1)

\* Line 206: the ID runServerUpstreamDNS looks up.
upstreamID(buf) == TxID(bufAt(buf, 0), bufAt(buf, 1))

\* Lines 199-207: a datagram is read into buf, the ID is taken from the
\* first two bytes of buf and looked up; with an entry the loop goes on to
\* delete it, without one it reads the next datagram.  The read of the map
\* races with a write in progress.
upstreamRead ==
    /\ ~crashed
    /\ up.pc = "L199"
    /\ nans < MaxAnswers
    /\ nans' = nans + 1
    /\ \E d \in upstreamDatagrams :
          LET buf == readInto(up.buf, d)
              id == upstreamID(buf)
          IN  \/ /\ up' = IF id \in DOMAIN queries
                          THEN [pc |-> "L208", buf |-> buf, n |-> Len(d),
                                id |-> id, query |-> queries[id], dgram |-> d]
                          ELSE [up EXCEPT !.buf = buf]
                 /\ UNCHANGED crashed
              \/ /\ Race(0)
                 /\ crashed' = TRUE
                 /\ UNCHANGED up
    /\ UNCHANGED <<blocked, queries, task, nrecv, relays, cnt>>

\* Line 208 begins: delete(queries, id).
upstreamDeleteBegin ==
    /\ ~crashed
    /\ up.pc = "L208"
    /\ \/ up' = [up EXCEPT !.pc = "L208w"] /\ UNCHANGED crashed
       \/ Race(0) /\ crashed' = TRUE /\ UNCHANGED up
    /\ UNCHANGED <<blocked, queries, task, nrecv, nans, relays, cnt>>

\* Line 208 ends.
upstreamDeleteEnd ==
    /\ ~crashed
    /\ up.pc = "L208w"
    /\ queries' = mapDelete(queries, up.id)
    /\ up' = [up EXCEPT !.pc = "L209"]
    /\ UNCHANGED <<blocked, task, nrecv, nans, relays, cnt, crashed>>

\* A relay of the whole buffer instead of buf[:n].
relayWholeBuf(u) == [to |-> u.query.From, bytes |-> u.buf]

\* The bytes and the address of the relay: buf[:n] to query.From.
relayDatagram(u) == [to |-> u.query.From, bytes |-> SubSeq(u.buf, 1, u.n)]

\* Lines 209-218: proxy.WriteTo(buf[:n], query.From), then the next
\* iteration, whose n, id and query are new variables.
upstreamRelay ==
    /\ ~crashed
    /\ up.pc = "L209"
    /\ \E ok \in BOOLEAN :
          /\ relays' = Append(relays,
                [to |-> relayDatagram(up).to, bytes |-> relayDatagram(up).bytes,
                 id |-> up.id, q |-> up.query.ptr, ok |-> ok])
          /\ cnt' = IF ok THEN [cnt EXCEPT !.Relayed = @ + 1]
                          ELSE [cnt EXCEPT !.Errors = @ + 1]
    /\ up' = [pc |-> "L199", buf |-> up.buf, n |-> 0, id |-> 0, query |-> NoQuery,
              dgram |-> <<>>]
    /\ UNCHANGED <<blocked, queries, task, nrecv, nans, crashed>>

\* ---------------------------------------------------------- specifications

Steps ==
    \/ \E h \in Handlers :
          \/ handleDNSCheck(h)
          \/ handleDNSBlock(h)
          \/ handleDNSInsertBegin(h)
          \/ handleDNSInsertEnd(h)
          \/ handleDNSForward(h)
          \/ handleDNSUndoBegin(h)
          \/ handleDNSUndoEnd(h)
          \/ timeoutLookup(h)
          \/ timeoutDeleteBegin(h)
          \/ timeoutDeleteEnd(h)
    \/ upstreamRead
    \/ upstreamDeleteBegin
    \/ upstreamDeleteEnd
    \/ upstreamRelay

\* The proxy serving MaxQueries client datagrams concurrently.
Next == runServerLocalDNS(ConcDatagrams, MaxQueries) \/ Steps

Spec == Init /\ [][Next]_vars

\* The proxy serving one client datagram, of any shape, with any block list.
NextOne == runServerLocalDNS(WideDatagrams, 1) \/ Steps

SpecOne == InitOne /\ [][NextOne]_vars

\* The steps of the goroutine handleDNS(msg, from) numbered h, of the timeout
\* closure it starts, and of an iteration of runServerUpstreamDNS after its
\* ReadFromUDP returned.
handleDNS(h) ==
    \/ handleDNSCheck(h)
    \/ handleDNSBlock(h)
    \/ handleDNSInsertBegin(h)
    \/ handleDNSInsertEnd(h)
    \/ handleDNSForward(h)
    \/ handleDNSUndoBegin(h)
    \/ handleDNSUndoEnd(h)

timeoutClosure(h) ==
    \/ timeoutLookup(h)
    \/ timeoutDeleteBegin(h)
    \/ timeoutDeleteEnd(h)

upstreamIteration == upstreamDeleteBegin \/ upstreamDeleteEnd \/ upstreamRelay

\* The Go scheduler runs every runnable goroutine and time.Sleep returns:
\* a goroutine that can take a step eventually takes one.  Nothing obliges a
\* client or the upstream resolver to send a datagram.
Fairness ==
    /\ \A h \in Handlers : WF_vars(handleDNS(h)) /\ WF_vars(timeoutClosure(h))
    /\ WF_vars(upstreamIteration)

\* The concurrent specification under fair scheduling.
FairSpec == Init /\ [][Next]_vars /\ Fairness

\* ------------------------------------------------------------------ claims

\* The goroutines that have been started.
Received == {h \in Handlers : task[h].pc # "idle"}

\* The queries whose answer was relayed: the WriteTo succeeded and
\* cntRelayed counted it.
RelayedQueries == {relays[i].q : i \in {j \in DOMAIN relays : relays[j].ok}}

\* The queries a timeout closure reported as timed out (cntTimedout).
TimedOutQueries == {task[h].query.ptr : h \in Handlers} \ {0}

\* C1: no query has both its answer relayed and a timeout recorded for it.
C1_RelayOrTimeoutNotBoth == RelayedQueries \cap TimedOutQueries = {}

\* A goroutine is inside a critical section of the table: inside a write,
\* or between its lookup and the removal that depends on it.
InTable(g) ==
    IF g = 0 THEN up.pc \in {"L208", "L208w"}
    ELSE task[g].pc \in {"L294w", "L299w", "L307", "L307w"}

\* C3: the table is accessed under mutual exclusion: no two goroutines are
\* inside a write or a lookup-then-remove sequence at the same time.
C3_TableMutualExclusion ==
    \A g1, g2 \in Goroutines : InTable(g1) /\ InTable(g2) => g1 = g2

\* The big-endian 16-bit number in bytes i and i+1 (Go offsets) of m.
Field16(m, i) == m[i + 1] * 256 + m[i + 2]

\* The client datagrams received so far carry pairwise distinct IDs.
DistinctIDs ==
    \A h1, h2 \in Received :
        (Len(task[h1].msg) >= 2 /\ Len(task[h2].msg) >= 2 /\ h1 # h2)
            => Field16(task[h1].msg, 0) # Field16(task[h2].msg, 0)

\* C2: with pairwise distinct IDs, every relayed upstream answer (a datagram
\* long enough to carry an ID) is written to the address of the client whose
\* query carries that ID, which is the only query with that ID.
C2_NoCrossClientDelivery ==
    DistinctIDs =>
        \A i \in DOMAIN relays :
            Len(relays[i].bytes) >= 2 =>
                \E h \in Received :
                    /\ Len(task[h].msg) >= 2
                    /\ Field16(task[h].msg, 0) = Field16(relays[i].bytes, 0)
                    /\ task[h].from = relays[i].to

\* Two queries with different IDs from different clients were outstanding
\* together and both answers have been relayed.
C2_Witness ==
    /\ DistinctIDs
    /\ Received = {1, 2}
    /\ task[1].from # task[2].from
    /\ Len(relays) = 2
    /\ relays[1].to # relays[2].to
    /\ Len(relays[1].bytes) >= 2 /\ Len(relays[2].bytes) >= 2
    /\ task[1].pc = "L303" /\ task[2].pc = "L303"

\* The table holds the query that goroutine h allocated.
InTableOf(h) == \E k \in DOMAIN queries : queries[k].ptr = h

C5_TimeoutIsSilent ==
    \A h \in Handlers :
        task[h].query.ptr = h =>
            /\ \A i \in DOMAIN relays : relays[i].q = h => ~relays[i].ok
            /\ task[h].sent = <<>>
            /\ task[h].pc = "done" => ~InTableOf(h)

\* The question name of m is well formed from sequence index i on: labels
\* of 1 to 63 bytes inside the datagram, ended by a zero byte.
RECURSIVE NameOK(_, _)
NameOK(m, i) ==
    /\ i <= Len(m)
    /\ \/ m[i] = 0
       \/ m[i] <= 63 /\ i + m[i] <= Len(m) /\ NameOK(m, i + m[i] + 1)

\* A datagram with a full header and a well-formed question name.
WellFormed(m) == Len(m) >= HeaderLen /\ NameOK(m, HeaderLen + 1)

\* A well-formed query with exactly one question.
SingleQuestion(m) == WellFormed(m) /\ Field16(m, 4) = 1

\* The host name of a well-formed datagram, and its classification.
HostOf(m) == decodeName(m, HeaderLen, <<>>).host
Classified(m) == isBlocked(blocked, HostOf(m)).block

\* Goroutine h has its timeout closure running or run.
TimerArmed(h) == task[h].pc \in {"L303", "L307", "L307w"} \/ task[h].query # NoQuery

\* C6: the handler of a well-formed single-question query of a blocked
\* domain writes exactly one datagram on the proxy socket, to the sender,
\* writes nothing upstream, inserts no entry and starts no timeout closure.
C6_BlockedAnsweredLocally ==
    \A h \in Received :
        (SingleQuestion(task[h].msg) /\ Classified(task[h].msg)) =>
            /\ task[h].fwd = <<>>
            /\ ~InTableOf(h)
            /\ ~TimerArmed(h)
            /\ task[h].pc \in {"L229", "L269", "done"}
            /\ Len(task[h].sent) = (IF task[h].pc = "done" THEN 1 ELSE 0)
            /\ \A i \in DOMAIN task[h].sent : task[h].sent[i].to = task[h].from
            /\ queries = [k \in {} |-> NoQuery]
            /\ relays = <<>>

\* The handler of a blocked three-label name has finished and has written
\* its one datagram.
C6_Witness ==
    \E h \in Received :
        /\ SingleQuestion(task[h].msg) /\ Classified(task[h].msg)
        /\ task[h].pc = "done"
        /\ Len(task[h].sent) = 1
        /\ task[h].sent[1].to = task[h].from
        /\ task[h].sent[1].ok
        /\ Len(HostOf(task[h].msg)) = 6

\* The positions of the dots of a host name, its number of labels (a name
\* ends with a dot, so the empty part after the last dot is not counted),
\* and the name without its k leftmost labels.
Dots(host) == {i \in DOMAIN host : host[i] = Dot}
NumLabels(host) == Cardinality(Dots(host))
KthDot(host, k) ==
    CHOOSE i \in Dots(host) : Cardinality({j \in Dots(host) : j < i}) = k - 1
StripLabels(host, k) ==
    IF k = 0 THEN host ELSE SubSeq(host, KthDot(host, k) + 1, Len(host))

\* The domain, or a parent of it that keeps at least `floor` labels, is in
\* the block list.
ListedWithFloor(host, floor) ==
    \/ host \in blocked
    \/ \E k \in 1..NumLabels(host) :
          NumLabels(host) - k >= floor /\ StripLabels(host, k) \in blocked

\* The goroutines that reached the block decision.
Decided == {h \in Received : task[h].out \in {"block", "relay"}}

\* C7 as stated: a domain is blocked exactly when it, or a parent suffix
\* that still has at least 3 labels, is in the block list.
C7_ThreeLabelFloor ==
    \A h \in Decided :
        (task[h].out = "block") <=> ListedWithFloor(task[h].host, 3)

\* C7 amended: a domain is blocked exactly when it, or a parent suffix that
\* still has at least 2 labels, is in the block list.
C7_TwoLabelFloor ==
    \A h \in Decided :
        (task[h].out = "block") <=> ListedWithFloor(task[h].host, 2)

\* A three-label name was blocked because its two-label parent is listed,
\* the name itself is not.
C7_Witness ==
    \E h \in Decided :
        /\ task[h].out = "block"
        /\ task[h].host \notin blocked
        /\ NumLabels(task[h].host) = 3
        /\ StripLabels(task[h].host, 1) \in blocked

\* A datagram shorter than the header, or whose question name overruns it.
Malformed(m) == ~WellFormed(m)

\* C8: a malformed client datagram is dropped: nothing is written to the
\* client or upstream, the table is unchanged and the server keeps running.
C8_MalformedDropped ==
    \A h \in Received :
        (Malformed(task[h].msg) /\ task[h].pc # "L229") =>
            /\ ~crashed
            /\ task[h].pc = "done"
            /\ task[h].sent = <<>> /\ task[h].fwd = <<>>
            /\ ~InTableOf(h)

\* C9: a datagram whose 16-bit question count is not 1 is dropped: no
\* forged answer, nothing forwarded, no table entry.
C9_QuestionCountExactlyOne ==
    \A h \in Received :
        (Len(task[h].msg) >= HeaderLen /\ Field16(task[h].msg, 4) # 1) =>
            /\ task[h].pc \in {"L229", "done"}
            /\ task[h].sent = <<>> /\ task[h].fwd = <<>>
            /\ ~InTableOf(h)

\* C10: the forged response to a well-formed single-question query has
\* flags bytes 0x81 and 0x80 and a 16-bit answer count of 1.
C10_ForgedHeader ==
    \A h \in Received :
        SingleQuestion(task[h].msg) =>
            \A i \in DOMAIN task[h].sent :
                LET r == task[h].sent[i].bytes IN
                /\ r[3] = 129
                /\ r[4] = 128
                /\ Field16(r, 6) = 1

\* The sequence index of the zero byte that ends the question name of a
\* well-formed datagram, walking the length bytes from index i.
RECURSIVE NameEnd(_, _)
NameEnd(m, i) == IF m[i] = 0 THEN i ELSE NameEnd(m, i + m[i] + 1)

\* The encoded question name: every length byte and label, and the zero byte.
EncodedName(m) == SubSeq(m, HeaderLen + 1, NameEnd(m, HeaderLen + 1))

\* C11: for a well-formed query the length derived from the decoded host
\* (1 + len(host)) is the length of the encoded question name, and the bytes
\* appended to a forged response are the encoded question name, the 10-byte
\* type/class/TTL/length template and the 4 bytes of the proxy's address.
C11_NameRoundTrip ==
    \A h \in Received :
        WellFormed(task[h].msg) =>
            /\ task[h].out \in {"block", "relay"} =>
                  1 + Len(task[h].host) = Len(EncodedName(task[h].msg))
            /\ \A i \in DOMAIN task[h].sent :
                  LET r == task[h].sent[i].bytes IN
                  SubSeq(r, Len(task[h].msg) + 1, Len(r)) =
                      EncodedName(task[h].msg)
                          \o <<0, 1, 0, 1, 255, 255, 255, 255, 0, 4>>
                          \o ProxyIP

\* A forged response was written for a blocked name of three labels.
C11_Witness ==
    \E h \in Received :
        /\ WellFormed(task[h].msg)
        /\ task[h].out = "block"
        /\ Len(task[h].sent) = 1
        /\ Len(EncodedName(task[h].msg)) = 7

\* C12: an upstream datagram whose transaction ID (the first two bytes the
\* read left in the receive buffer) has no entry in the table is discarded:
\* the loop goes back to reading, nothing is written to a client and the
\* table is unchanged; the loop goes on to the delete and the relay only with
\* an ID that has an entry.
C12_UnknownAnswerDiscarded ==
    [][ nans' # nans =>
            /\ queries' = queries
            /\ relays' = relays
            /\ \A h \in Handlers : task'[h].sent = task[h].sent
            /\ (Len(up'.buf) >= 2 /\ Field16(up'.buf, 0) \notin DOMAIN queries) =>
                  /\ up'.pc = "L199"
                  /\ up'.query = NoQuery
            /\ up'.pc = "L208" =>
                  /\ Len(up'.buf) >= 2 => Field16(up'.buf, 0) \in DOMAIN queries
                  /\ Len(up'.dgram) >= 2 => Field16(up'.dgram, 0) \in DOMAIN queries
      ]_vars

\* The answer to a forwarded query arrived after the query's timeout closure
\* had removed the entry, and was discarded.
C12_Witness ==
    \E h \in Handlers :
        /\ task[h].pc = "done"
        /\ task[h].query.ptr = h
        /\ nans = 1
        /\ up.pc = "L199"
        /\ up.buf = Reply(task[h].msg)
        /\ relays = <<>>
        /\ task[h].sent = <<>>
        /\ ~crashed

\* Goroutine h has written its query upstream and its timeout closure has
\* not yet looked the entry up.
Outstanding(h) == task[h].fwd # <<>> /\ task[h].pc = "L303"

\* The datagram d carries the ID of the query of goroutine h.
CarriesIDOf(d, h) == Len(d) >= 2 /\ Field16(d, 0) = task[h].id

\* No upstream datagram carrying the ID of h's query has been processed:
\* none is being processed and none was relayed.
AnswerNotProcessed(h) ==
    /\ ~CarriesIDOf(up.dgram, h)
    /\ \A i \in DOMAIN relays : ~CarriesIDOf(relays[i].bytes, h)

\* C13: a non-blocked query is inserted into the table, then written
\* upstream unmodified, then its timeout is armed; so whenever a query has
\* been written upstream and neither its answer nor its timeout has been
\* processed, the table holds an entry for the query's ID.
C13_EntryWhileOutstanding ==
    \A h \in Received :
        /\ \A i \in DOMAIN task[h].fwd : task[h].fwd[i] = task[h].msg
        /\ task[h].pc \in {"L294", "L294w"} => task[h].fwd = <<>>
        /\ TimerArmed(h) => Len(task[h].fwd) = 1
        /\ (Outstanding(h) /\ AnswerNotProcessed(h)) =>
              task[h].id \in DOMAIN queries

\* The goroutines whose block decision was "block".
BlockedTasks == {h \in Received : task[h].out = "block"}

\* C14 as stated: the count reported for a blocked domain is zero when the
\* domain itself is in the block list and greater than zero when a parent
\* suffix matched.
C14_ZeroWhenVerbatim ==
    \A h \in BlockedTasks :
        IF task[h].host \in blocked THEN task[h].try = 0 ELSE task[h].try > 0

\* C14 amended: the count reported for a blocked domain is the number of
\* names tested: 1 when the domain itself is in the block list (whatever its
\* number of labels), and k + 1 when the first match was the parent suffix
\* left after stripping k >= 1 labels.
C14_CountsTestedNames ==
    \A h \in BlockedTasks :
        /\ task[h].try >= 1
        /\ task[h].try = 1 <=> task[h].host \in blocked
        /\ StripLabels(task[h].host, task[h].try - 1) \in blocked
        /\ \A k \in 0..(task[h].try - 2) : StripLabels(task[h].host, k) \notin blocked

\* A four-label name was blocked on the parent left after stripping two
\* labels.
C14_Witness ==
    \E h \in BlockedTasks :
        /\ NumLabels(task[h].host) = 4
        /\ task[h].try = 3
        /\ StripLabels(task[h].host, 2) \in blocked

\* The answer of the query of goroutine a was relayed: the upstream loop
\* found a's entry, removed it and wrote the answer.
Answered(a) ==
    \E i \in DOMAIN relays :
        relays[i].q = a /\ relays[i].ok /\ relays[i].bytes = Reply(task[a].msg)

\* Query a was answered and removed, and query b with the same ID was
\* inserted and forwarded afterwards (b's entry is in the table, which the
\* removal of a's entry, made by ID, would have taken away had it come
\* later); the timers of both are still asleep.
ReusedAfterAnswer(a, b) ==
    /\ a # b
    /\ task[a].pc = "L303" /\ Answered(a)
    /\ task[b].pc = "L303" /\ InTableOf(b)
    /\ task[a].id = task[b].id

\* C15: when query a was answered and removed and a later query b reuses its
\* ID, the firing of a's timer finds nothing of its own: it leaves b's entry
\* in place, records no timeout and ends.
C15_TimerSparesLaterQuery ==
    [][ \A a, b \in Handlers :
            (ReusedAfterAnswer(a, b) /\ task'[a].pc # "L303") =>
                /\ task'[a].pc = "done"
                /\ task'[a].query = NoQuery
                /\ cnt'.Timedout = cnt.Timedout
                /\ InTableOf(b)'
      ]_vars

\* C16: under fair scheduling no table entry leaks while the process runs:
\* every entry inserted is eventually removed (by an answer, by a timeout
\* closure or after a failed forward), and the table eventually is empty and
\* stays empty.
C16_NoEntryLeaks ==
    /\ \A h \in Handlers : InTableOf(h) ~> (crashed \/ ~InTableOf(h))
    /\ <>[](crashed \/ queries = [k \in {} |-> NoQuery])

\* Two queries were forwarded, the entry of one was removed by the upstream
\* loop and that of the other by its timeout closure, and the table is empty.
C16_Witness ==
    /\ queries = [k \in {} |-> NoQuery]
    /\ \A h \in Handlers : task[h].pc = "done" /\ Len(task[h].fwd) = 1
    /\ task[1].query.ptr = 1
    /\ task[2].query = NoQuery
    /\ \E i \in DOMAIN relays : relays[i].q = 2
    /\ ~crashed

\* The query of goroutine h is outstanding: written upstream, its timeout
\* closure asleep, and its entry neither found by the upstream loop nor
\* relayed.
Pending(h) ==
    /\ Outstanding(h)
    /\ up.query.ptr # h
    /\ \A i \in DOMAIN relays : relays[i].q # h

\* Goroutines a and b handle queries of different clients with the same ID.
SameIDOtherClient(a, b) ==
    /\ a # b
    /\ task[a].id = task[b].id
    /\ task[a].from # task[b].from

\* No third query received carries the ID of the query of goroutine a.
NoThird(a, b) ==
    \A c \in Received \ {a, b} :
        Len(task[c].msg) >= 2 => Field16(task[c].msg, 0) # task[a].id

\* The query of goroutine a was inserted and can no longer be found: it is
\* not in the table, the upstream loop does not hold it and has relayed
\* nothing for it.
Lost(a) ==
    /\ task[a].pc \in {"L295", "L299", "L299w", "L303", "L307", "L307w", "done"}
    /\ task[a].out = "relay"
    /\ ~InTableOf(a)
    /\ up.query.ptr # a
    /\ \A i \in DOMAIN relays : relays[i].q # a

\* C17: with two clients' queries of the same ID, (1) the second insert
\* replaces the first client's entry and raises no error, (2) the table never
\* holds more than one of the queries of an ID, (3) while both are
\* outstanding the ID has an entry, and an upstream datagram with that ID read
\* then is relayed to the address in that entry, the second client's, and
\* (4) the first client's query, once replaced, is never found again:
\* nothing is relayed for it and its handler writes nothing to its client.
C17_SecondInsertWins ==
    [][ /\ \A a, b \in Handlers :
              (SameIDOtherClient(a, b) /\ InTableOf(a)
                 /\ task[b].pc = "L294w" /\ task'[b].pc = "L295") =>
                  /\ ~crashed'
                  /\ DOMAIN queries' = DOMAIN queries
                  /\ queries'[task[b].id] =
                        [From |-> task[b].from, Host |-> task[b].host, ptr |-> b]
                  /\ ~InTableOf(a)'
        /\ \A a, b \in Handlers :
              (a # b /\ task[a].id = task[b].id) => ~(InTableOf(a) /\ InTableOf(b))
        /\ \A a, b \in Handlers :
              (SameIDOtherClient(a, b) /\ NoThird(a, b)
                 /\ Pending(a) /\ Pending(b)) =>
                  /\ task[a].id \in DOMAIN queries
                  /\ (nans' # nans /\ ~crashed' /\ Len(up'.buf) >= 2
                        /\ Field16(up'.buf, 0) = task[a].id) =>
                        /\ up'.pc = "L208"
                        /\ up'.query = queries[task[a].id]
                        /\ up'.query.From \in {task[a].from, task[b].from}
        /\ (up.pc = "L209" /\ up' # up) =>
              /\ relays'[Len(relays')].to = up.query.From
              /\ relays'[Len(relays')].q = up.query.ptr
        /\ \A a \in Handlers :
              Lost(a) =>
                  /\ Lost(a)'
                  /\ \A i \in DOMAIN relays' : relays'[i].q # a
                  /\ task'[a].sent = <<>>
      ]_vars

\* Two clients' queries with the same ID are outstanding, the second insert
\* has replaced the first client's entry, and the upstream loop has found the
\* second client's entry for the answer it read.
C17_Witness ==
    \E a, b \in Handlers :
        /\ SameIDOtherClient(a, b)
        /\ Outstanding(a) /\ Outstanding(b)
        /\ Lost(a)
        /\ InTableOf(b)
        /\ up.pc = "L208"
        /\ up.query.ptr = b
        /\ up.dgram = Reply(task[b].msg)
        /\ relays = <<>>

\* The upstream write of goroutine h failed: h is on the error path of
\* lines 296-300, or has returned from it.
ForwardFailing(h) == task[h].pc \in {"L299", "L299w"}
ForwardFailed(h) ==
    task[h].pc = "done" /\ task[h].out = "relay" /\ task[h].fwd = <<>>

\* C18: when the upstream write fails the handler removes the entry it
\* inserted, starts no timeout closure and writes nothing to the client, and
\* the server keeps running; when the handler has returned the table holds no
\* entry made for that datagram.
C18_ForwardFailureCleansUp ==
    \A h \in Received :
        /\ (ForwardFailing(h) \/ ForwardFailed(h)) =>
              /\ ~crashed
              /\ task[h].sent = <<>>
              /\ ~TimerArmed(h)
        /\ ForwardFailed(h) => ~InTableOf(h)

\* C19: the upstream loop goes on to remove an entry and to relay only with
\* a datagram of at least 2 bytes and the ID in that datagram's first two
\* bytes; a shorter datagram removes nothing and nothing of it is relayed.
C19_IDFromDatagramOnly ==
    /\ up.pc \in {"L208", "L208w", "L209"} =>
          /\ Len(up.dgram) >= 2
          /\ up.id = Field16(up.dgram, 0)
    /\ \A i \in DOMAIN relays :
          /\ Len(relays[i].bytes) >= 2
          /\ relays[i].id = Field16(relays[i].bytes, 0)

\* The sequence indices of the flags bytes and of the answer-count field.
FlagsAndANCount == {3, 4, 7, 8}

\* C20: a forged response keeps every byte of the query outside the flags
\* bytes and the answer-count field (the ID, the other counts, and everything
\* from offset 12 to the end of the query) at its offset, and its length is
\* the query's length plus the encoded name's length plus 14.
C20_ForgedResponseFrame ==
    \A h \in Received :
        \A i \in DOMAIN task[h].sent :
            LET r == task[h].sent[i].bytes
                m == task[h].msg
            IN  /\ Len(r) = Len(m) + Len(EncodedName(m)) + 14
                /\ \A j \in DOMAIN m \ FlagsAndANCount : r[j] = m[j]

\* A forged response was written for a query whose answer-count field had a
\* nonzero upper byte, and the question after the name is in place.
C20_Witness ==
    \E h \in Received :
        /\ Len(task[h].sent) = 1
        /\ task[h].msg[7] = 1
        /\ task[h].sent[1].bytes[7] = 1
        /\ Len(task[h].msg) > HeaderLen + Len(EncodedName(task[h].msg))
        /\ task[h].sent[1].bytes[Len(task[h].msg)] = task[h].msg[Len(task[h].msg)]

====
